---- MODULE Spec2Model ----
(***************************************************************************)
(* A state-machine model of src/index.js (auto-git-update).                *)
(*                                                                         *)
(* The module-level variables `config` and `ready`, the three directories  *)
(* the updater touches (the live application directory, the clone          *)
(* workspace and the backup workspace), the release-tag requests started   *)
(* by the constructor, and one caller that invokes the public operations   *)
(* autoUpdate / compareVersions / forceUpdate one at a time.  An updater   *)
(* object has no fields of its own: all it works on is module-level.       *)
(* An action is one run-to-completion segment of the JavaScript code       *)
(* between two awaits.  What the network, git, the file system and npm     *)
(* answer is chosen with \E from small sets.  The embedding application    *)
(* constructs updaters and awaits each operation before the next; the      *)
(* release-tag requests and the npm child run alongside.                   *)
(***************************************************************************)
EXTENDS Naturals, Sequences, FiniteSets, TLC

VARIABLES
    config,        \* `let config` (index.js:24): the last configuration assigned
    ready,         \* `let ready` (index.js:43)
    app,           \* the live application directory (appRootPath.path)
    clone,         \* tempLocation + cloneSubdirectory
    backup,        \* tempLocation + backupSubdirectory
    nConstructed,  \* number of constructor calls made so far
    hasInstance,   \* whether a constructor call has returned an updater object
    ctor,          \* what the last constructor call did
    task,          \* task[i]: the setBranchToReleaseTag promise of the i-th constructor call
    taskError,     \* taskError[i]: what that promise was rejected with
    op,            \* the public operation in flight ("idle" when none)
    pc,            \* where that operation is suspended
    cv,            \* compareVersions' locals and its returned result
    ret,           \* what the last finished public operation returned
    nCalls,        \* number of public operations started so far
    run,           \* bookkeeping for the forceUpdate run in flight / last run
    npm,           \* the `npm install` child process and the promise around it
    proc,          \* the host process: running, or exited through process.exit
    lookupRef,     \* the branch put in the last remote package.json URL
    cloneRef       \* the --branch argument of the last git clone

vars == <<config, ready, app, clone, backup, nConstructed, hasInstance, ctor, task, taskError,
          op, pc, cv, ret, nCalls, run, npm, proc, lookupRef, cloneRef>>

----------------------------------------------------------------------------
(* Bounds of the model.                                                    *)

\* How many times the constructor is called in one process.
MaxConstructions == 2
\* How many public operations the caller starts in one process.
MaxCalls == 2

----------------------------------------------------------------------------
(* JavaScript values.                                                      *)

\* A property that is absent from an object reads as undefined.
Undefined == <<"undefined", "">>
JSString(s) == <<"string", s>>
\* A number carries its decimal numeral.
JSNumber(d) == <<"number", d>>

\* ToNumber applied to a string: the numeral it spells, or NaN.
StringToNumber(s) == IF s \in {"1", "2"} THEN s ELSE "NaN"

\* The abstract equality `==` of line 104 on the values above: values of one
\* type are equal when identical; a string and a number are compared after
\* the string is converted to a number (NaN equals nothing).
LooseEquals(x, y) ==
    IF x[1] = y[1] THEN x = y
    ELSE IF x[1] = "string" /\ y[1] = "number" THEN StringToNumber(x[2]) = y[2]
    ELSE IF x[1] = "number" /\ y[1] = "string" THEN x[2] = StringToNumber(y[2])
    ELSE FALSE

\* `${value}` in a template literal.
TemplateString(v) == IF v = Undefined THEN "undefined" ELSE v[2]

\* Truthiness of a string-or-undefined option (`if (config.executeOnComplete)`).
Truthy(v) == v # Undefined /\ v # JSString("")

----------------------------------------------------------------------------
(* Files.  A directory is a function from file names to file texts.        *)

Absent == "<absent>"
Files == {"package.json", "config.json"}
EmptyDir == [f \in Files |-> Absent]

PkgV1     == "{name:'app',version:'1'}"
PkgV2     == "{name:'app',version:'2'}"
PkgNum1   == "{name:'app',version:1}"
PkgNoVer  == "{name:'app'}"
PkgSelf   == "{name:'auto-git-update',version:'1'}"
Garbage   == "<html>"
RelV2     == "{tag_name:'v2.0.0'}"

\* JSON.parse(text): whether it returns, and the properties of the object the
\* code goes on to read (name, version, tag_name).
JSONParse(text) ==
    CASE text = PkgV1    -> [ok |-> TRUE, name |-> JSString("app"), version |-> JSString("1"), tag_name |-> Undefined]
      [] text = PkgV2    -> [ok |-> TRUE, name |-> JSString("app"), version |-> JSString("2"), tag_name |-> Undefined]
      [] text = PkgNum1  -> [ok |-> TRUE, name |-> JSString("app"), version |-> JSNumber("1"), tag_name |-> Undefined]
      [] text = PkgNoVer -> [ok |-> TRUE, name |-> JSString("app"), version |-> Undefined, tag_name |-> Undefined]
      [] text = PkgSelf  -> [ok |-> TRUE, name |-> JSString("auto-git-update"), version |-> JSString("1"), tag_name |-> Undefined]
      [] text = RelV2    -> [ok |-> TRUE, name |-> Undefined, version |-> Undefined, tag_name |-> JSString("v2.0.0")]
      [] OTHER           -> [ok |-> FALSE, name |-> Undefined, version |-> Undefined, tag_name |-> Undefined]

\* fs.readFileSync(file) followed by JSON.parse: throws when the file does not
\* exist or is not JSON.
ReadJSONFile(dir, f) ==
    IF dir[f] = Absent THEN [ok |-> FALSE, name |-> Undefined, version |-> Undefined, tag_name |-> Undefined]
    ELSE JSONParse(dir[f])

----------------------------------------------------------------------------
(* Configuration.                                                          *)

GitHubRepo == JSString("https://github.com/owner/app")
OtherRepo  == JSString("https://gitlab.com/owner/app")

\* repository.toLocaleLowerCase().replace(...).includes('github') (lines 283-284)
IncludesGithub(repository) == repository = GitHubRepo

\* `let config = {}`: every property reads as undefined (a missing flag is falsy,
\* a missing ignoreFiles is skipped like an empty list).  The access token and
\* the logger configuration only change what is sent and logged; they are left out.
EmptyConfig ==
    [repository |-> Undefined, branch |-> Undefined, fromReleases |-> FALSE,
     tempLocation |-> Undefined, ignoreFiles |-> <<>>,
     executeOnComplete |-> Undefined, exitOnComplete |-> FALSE]

\* The configurations the embedding application passes to the constructor:
\* two that lack a required property, a release-based one with an ignored file
\* and a completion command, a branch-based one that runs a command and exits,
\* and a release-based one on a host that is not GitHub.
ConfigInputs ==
    { [EmptyConfig EXCEPT !.tempLocation = JSString("/tmp")],
      [EmptyConfig EXCEPT !.repository = GitHubRepo],
      [EmptyConfig EXCEPT !.repository = GitHubRepo, !.tempLocation = JSString("/tmp"),
                          !.branch = JSString("dev"), !.fromReleases = TRUE,
                          !.ignoreFiles = <<"config.json">>,
                          !.executeOnComplete = JSString("restart.sh")],
      [EmptyConfig EXCEPT !.repository = GitHubRepo, !.tempLocation = JSString("/tmp"),
                          !.executeOnComplete = JSString("restart.sh"),
                          !.exitOnComplete = TRUE],
      [EmptyConfig EXCEPT !.repository = OtherRepo, !.tempLocation = JSString("/tmp"),
                          !.fromReleases = TRUE] }

----------------------------------------------------------------------------
(* What the outside world can hold or answer.                              *)

\* The live application directory and the backup workspace when the process
\* starts: a first run with no backup yet, an application whose earlier
\* process left a backup behind, and auto-git-update's own checkout.
PriorBackup == [EmptyDir EXCEPT !["package.json"] = PkgV1, !["config.json"] = "stale"]
DiskInits ==
    { <<[EmptyDir EXCEPT !["package.json"] = PkgV1, !["config.json"] = "local"], EmptyDir>>,
      <<[EmptyDir EXCEPT !["package.json"] = PkgNoVer], PriorBackup>>,
      <<[EmptyDir EXCEPT !["package.json"] = PkgSelf], EmptyDir>> }

\* The trees `git clone` can deliver.
RemoteTrees ==
    { [EmptyDir EXCEPT !["package.json"] = PkgV2, !["config.json"] = "shipped"],
      [EmptyDir EXCEPT !["package.json"] = PkgV2],
      [EmptyDir EXCEPT !["package.json"] = Garbage, !["config.json"] = "shipped"] }

\* An https response: a status code and a body; status 0 stands for the
\* request's 'error' event (no response at all).
Response(status, body) == [status |-> status, body |-> body]
ManifestResponses ==
    { Response(200, b) : b \in {PkgV1, PkgV2, PkgNum1, PkgNoVer, Garbage} }
    \cup { Response(404, ""), Response(500, ""), Response(0, "") }
ReleaseResponses ==
    { Response(200, b) : b \in {RelV2, Garbage} }
    \cup { Response(404, ""), Response(500, ""), Response(0, "") }

\* promiseHttpsRequest resolves with the body exactly on status 200.
HttpsResolves(resp) == resp.status = 200

\* What can be thrown and caught: an Error of this module (by its message),
\* a bare status code, an Error of the https or fs library, a SyntaxError of
\* JSON.parse.
NoError           == <<"none", 0>>
NotFoundOrPrivate == <<"This repository requires a token or does not exist.", 0>>
UnsupportedHost   == <<"fromReleases is enabled but this does not seem to be a GitHub repo.", 0>>
StatusCode(n)     == <<"status code", n>>
RequestError      == <<"request error", 0>>
SyntaxError       == <<"SyntaxError", 0>>
LocalReadError    == <<"local package.json unreadable", 0>>

\* What the try blocks of lines 263-267 and 290-295 throw on a response they
\* cannot use: promiseHttpsRequest rejects with the status code (line 346) or
\* with the error of the request (line 351); JSON.parse throws on the body.
RequestFailure(resp) ==
    IF resp.status = 0 THEN RequestError
    ELSE IF resp.status # 200 THEN StatusCode(resp.status)
    ELSE SyntaxError

\* Lines 269-270 and 297-298: `if (err = 404) throw new Error(...); throw err`.
\* The condition is an assignment: err becomes 404, whose truth value decides.
CatchRethrow(err) ==
    LET assigned == StatusCode(404)
    IN  IF assigned[2] # 0 THEN NotFoundOrPrivate ELSE assigned

----------------------------------------------------------------------------
(* Initial state: the module has been loaded, nothing constructed yet.     *)

\* The stages the forceUpdate run of the current operation has entered and
\* completed, the stage that failed, and whether the completion command was spawned.
NoRun == [started |-> <<>>, completed |-> {}, failed |-> "none", launched |-> FALSE]
\* The promise returned by installDependencies, the child's stdout, and whether a
\* stderr chunk containing "error" has been delivered.
NoNpm == [promise |-> "none", stdout |-> "none", errorSeen |-> FALSE]
\* compareVersions' locals: the two versions read, how the call ended, whether
\* an exception left it, the error its catch block caught, and the object it
\* returned (meaningful once outcome is not "none").
NoCv  == [currentVersion |-> Undefined, remoteVersion |-> Undefined, outcome |-> "none",
          raised |-> FALSE, caught |-> NoError,
          result |-> [upToDate |-> FALSE, currentVersion |-> Undefined,
                      remoteVersion |-> Undefined]]
\* What a finished autoUpdate / forceUpdate returned; compareVersions returns cv.result.
NoReturn == [op |-> "none", value |-> FALSE]

Init ==
    /\ config = EmptyConfig
    /\ ready = TRUE
    /\ \E disk \in DiskInits : app = disk[1] /\ backup = disk[2]
    /\ clone = EmptyDir
    /\ nConstructed = 0
    /\ hasInstance = FALSE
    /\ ctor = "none"
    /\ task = [i \in 1..(MaxConstructions) |-> "none"]
    /\ taskError = [i \in 1..(MaxConstructions) |-> NoError]
    /\ op = "idle"
    /\ pc = "idle"
    /\ cv = NoCv
    /\ ret = NoReturn
    /\ nCalls = 0
    /\ run = NoRun
    /\ npm = NoNpm
    /\ proc = "running"
    /\ lookupRef = "none"
    /\ cloneRef = "none"

----------------------------------------------------------------------------
(* The constructor (lines 50-76) and setBranchToReleaseTag (lines 279-300). *)

\* A validation that does not look at tempLocation.
ConfigIsValid_IgnoresTempLocation(updateConfig) ==
    updateConfig.repository # Undefined

\* Lines 52-55: the required properties.
ConfigIsValid(updateConfig) ==
    updateConfig.repository # Undefined /\ updateConfig.tempLocation # Undefined

\* Line 54: a missing branch becomes 'master'.
WithDefaultBranch(updateConfig) ==
    IF updateConfig.branch = Undefined
    THEN [updateConfig EXCEPT !.branch = JSString("master")]
    ELSE updateConfig

\* Lines 279-287: setBranchToReleaseTag up to its first await.  It is an async
\* function: the throw of line 284 rejects its promise, which nobody handles.
ReleaseTaskStarted(repository) ==
    IF IncludesGithub(repository) THEN "pending" ELSE "rejected"

\* Lines 69-74: the check that the host application is not auto-git-update
\* itself; reading or parsing the host's package.json may throw as well.
SelfCheckThrows ==
    LET appPackage == ReadJSONFile(app, "package.json")
    IN  \/ ~appPackage.ok
        \/ LooseEquals(appPackage.name, JSString("auto-git-update"))

\* new AutoGitUpdate(updateConfig)
Constructor(updateConfig) ==
    /\ proc = "running" /\ op = "idle"
    /\ nConstructed < MaxConstructions
    /\ nConstructed' = nConstructed + 1
    /\ IF ~ConfigIsValid(updateConfig)
       THEN /\ ctor' = "threw-config"
            /\ UNCHANGED <<config, ready, task, taskError, hasInstance>>
       ELSE /\ config' = WithDefaultBranch(updateConfig)
            /\ ready' = IF updateConfig.fromReleases THEN FALSE ELSE ready
            /\ task' = [task EXCEPT ![nConstructed + 1] =
                           IF updateConfig.fromReleases
                           THEN ReleaseTaskStarted(updateConfig.repository)
                           ELSE "none"]
            /\ taskError' = [taskError EXCEPT ![nConstructed + 1] =
                                IF updateConfig.fromReleases
                                   /\ ReleaseTaskStarted(updateConfig.repository) = "rejected"
                                THEN UnsupportedHost
                                ELSE NoError]
            /\ IF SelfCheckThrows
               THEN ctor' = "threw-self" /\ UNCHANGED hasInstance
               ELSE ctor' = "ok" /\ hasInstance' = TRUE
    /\ UNCHANGED <<app, clone, backup, op, pc, cv, ret, nCalls, run, npm, proc,
                   lookupRef, cloneRef>>

\* new AutoGitUpdate() without an argument: line 52 throws.
ConstructorNoConfig ==
    /\ proc = "running" /\ op = "idle"
    /\ nConstructed < MaxConstructions
    /\ nConstructed' = nConstructed + 1
    /\ ctor' = "threw-config"
    /\ UNCHANGED <<nCalls, config, ready, app, clone, backup, hasInstance, task, taskError, op, pc, cv,
                   ret, run, npm, proc, lookupRef, cloneRef>>

\* Lines 290-299: the release request of the i-th constructor call settles.
\* On success the tag is written into the current `config` and the gate is
\* opened; on any failure the catch block throws and the gate stays as it is.
ReleaseTagSettles(i, resp) ==
    /\ proc = "running"
    /\ task[i] = "pending"
    /\ IF HttpsResolves(resp) /\ JSONParse(resp.body).ok
       THEN /\ config' = [config EXCEPT !.branch = JSONParse(resp.body).tag_name]
            /\ ready' = TRUE
            /\ task' = [task EXCEPT ![i] = "fulfilled"]
            /\ UNCHANGED taskError
       ELSE /\ task' = [task EXCEPT ![i] = "rejected"]
            /\ taskError' = [taskError EXCEPT ![i] = CatchRethrow(RequestFailure(resp))]
            /\ UNCHANGED <<config, ready>>
    /\ UNCHANGED <<app, clone, backup, nConstructed, hasInstance, ctor, op, pc, cv,
                   ret, nCalls, run, npm, proc, lookupRef, cloneRef>>

----------------------------------------------------------------------------
(* compareVersions (lines 97-111), readAppVersion (245-250) and            *)
(* readRemoteVersion (255-272).                                            *)

\* What compareVersions returns.  A property the returned object does not
\* have reads as undefined.
VersionResults(upToDate, currentVersion, remoteVersion) ==
    [upToDate |-> upToDate, currentVersion |-> currentVersion,
     remoteVersion |-> remoteVersion]

\* Line 109: the result of the catch block.
ErrorResults == VersionResults(FALSE, JSString("Error"), JSString("Error"))

\* Lines 104-105.
CompareResults(currentVersion, remoteVersion) ==
    IF LooseEquals(currentVersion, remoteVersion)
    THEN VersionResults(TRUE, currentVersion, Undefined)
    ELSE VersionResults(FALSE, currentVersion, remoteVersion)

\* A compareVersions whose catch block throws again.
CompareVersionsCatch_Rethrows(c, thrownBy) ==
    [c EXCEPT !.outcome = thrownBy, !.raised = TRUE]

\* Lines 106-110: the catch block around the whole body of compareVersions
\* turns whatever was thrown into the "Error" result.
CompareVersionsCatch(c, thrownBy) ==
    [c EXCEPT !.outcome = thrownBy, !.result = ErrorResults]

\* readRemoteVersion settles: lines 264-270.  It returns the version property
\* of the parsed body, or throws when the request or the parse failed.
RemoteVersionRead(resp) ==
    IF HttpsResolves(resp) /\ JSONParse(resp.body).ok
    THEN [ok |-> TRUE, version |-> JSONParse(resp.body).version, error |-> NoError]
    ELSE [ok |-> FALSE, version |-> Undefined,
          error |-> CatchRethrow(RequestFailure(resp))]

\* A public operation is called on an updater.  What the previous operation
\* left behind (its result, its npm child, whose promise is settled and whose
\* handlers can only log) is dropped.
OperationCalled(name) ==
    /\ proc = "running" /\ op = "idle" /\ hasInstance /\ nCalls < MaxCalls
    /\ nCalls' = nCalls + 1
    /\ op' = name
    /\ ret' = NoReturn
    /\ npm' = NoNpm
    /\ cloneRef' = "none"

\* Lines 98-101 up to the await: the local version is read and the request for
\* the remote package.json is sent.  A failed local read goes to the catch block.
CompareVersionsBegins ==
    LET appPackage == ReadJSONFile(app, "package.json")
    IN  IF appPackage.ok
        THEN /\ cv' = [NoCv EXCEPT !.currentVersion = appPackage.version]
             /\ lookupRef' = TemplateString(config.branch)
             /\ pc' = "cv_remote"
        ELSE /\ cv' = [CompareVersionsCatch(NoCv, "local-read-failed")
                          EXCEPT !.caught = LocalReadError]
             /\ lookupRef' = "none"
             /\ pc' = "cv_done"

\* updater.compareVersions()
CallCompareVersions ==
    /\ OperationCalled("compareVersions")
    /\ run' = NoRun
    /\ CompareVersionsBegins
    /\ UNCHANGED <<config, ready, app, clone, backup, nConstructed, hasInstance, ctor,
                   task, taskError, proc>>

\* A compareVersions that keeps the fetched manifest in the clone workspace.
RemoteVersionSettles_CachesManifest(resp) ==
    /\ proc = "running" /\ pc = "cv_remote"
    /\ LET remote == RemoteVersionRead(resp)
       IN  cv' = IF remote.ok
                 THEN [cv EXCEPT !.remoteVersion = remote.version, !.outcome = "compared",
                                 !.result = CompareResults(cv.currentVersion, remote.version)]
                 ELSE [CompareVersionsCatch(cv, "remote-read-failed")
                          EXCEPT !.caught = remote.error]
    /\ clone' = [clone EXCEPT !["package.json"] = resp.body]
    /\ pc' = "cv_done"
    /\ UNCHANGED <<nCalls, config, ready, app, backup, nConstructed, hasInstance, ctor,
                   task, taskError, op, ret, run, npm, proc, lookupRef, cloneRef>>

\* Lines 101-110: the remote request settles and compareVersions computes its result.
RemoteVersionSettles(resp) ==
    /\ proc = "running" /\ pc = "cv_remote"
    /\ LET remote == RemoteVersionRead(resp)
       IN  cv' = IF remote.ok
                 THEN [cv EXCEPT !.remoteVersion = remote.version, !.outcome = "compared",
                                 !.result = CompareResults(cv.currentVersion, remote.version)]
                 ELSE [CompareVersionsCatch(cv, "remote-read-failed")
                          EXCEPT !.caught = remote.error]
    /\ pc' = "cv_done"
    /\ UNCHANGED <<nCalls, config, ready, app, clone, backup, nConstructed, hasInstance, ctor,
                   task, taskError, op, ret, run, npm, proc, lookupRef, cloneRef>>

\* The promise of a direct compareVersions call resolves with the result.
CompareVersionsReturns ==
    /\ proc = "running" /\ op = "compareVersions" /\ pc = "cv_done"
    /\ op' = "idle"
    /\ pc' = "idle"
    /\ ret' = [op |-> "compareVersions", value |-> FALSE]
    /\ UNCHANGED <<nCalls, config, ready, app, clone, backup, nConstructed, hasInstance, ctor,
                   task, taskError, cv, run, npm, proc, lookupRef, cloneRef>>

----------------------------------------------------------------------------
(* The update pipeline: forceUpdate (lines 119-135) and its stages.        *)

\* fs.copy(src, dst): every file of src is written over dst; files of dst with
\* no counterpart in src stay.
CopyOver(src, dst) == [f \in Files |-> IF src[f] # Absent THEN src[f] ELSE dst[f]]

\* A copy that fails after having written the files in `copied`.
CopySome(src, dst, copied) ==
    [f \in Files |-> IF f \in copied /\ src[f] # Absent THEN src[f] ELSE dst[f]]

\* The sets of files a failing copy may have written before it failed.
PartialCopies == { {}, {"package.json"} }

\* Lines 221-228: unlinkSync of every ignored file in the clone, in order;
\* unlinking a file that is not there throws.
RECURSIVE PurgeIgnored(_, _)
PurgeIgnored(dir, ignoreFiles) ==
    IF ignoreFiles = <<>> THEN [ok |-> TRUE, dir |-> dir]
    ELSE IF dir[Head(ignoreFiles)] = Absent THEN [ok |-> FALSE, dir |-> dir]
    ELSE PurgeIgnored([dir EXCEPT ![Head(ignoreFiles)] = Absent], Tail(ignoreFiles))

\* A catch block that runs the completion command as well.
UpdateFails_RunsCommand(stage) ==
    /\ run' = [run EXCEPT !.failed = stage, !.launched = TRUE]
    /\ ret' = [op |-> op, value |-> FALSE]
    /\ op' = "idle"
    /\ pc' = "idle"

\* Lines 130-134: the catch block of forceUpdate.
UpdateFails(stage) ==
    /\ run' = [run EXCEPT !.failed = stage]
    /\ ret' = [op |-> op, value |-> FALSE]
    /\ op' = "idle"
    /\ pc' = "idle"

\* A stage completed and the next one was entered.
StageDone(r, stage, next) ==
    [r EXCEPT !.completed = @ \cup {stage}, !.started = Append(@, next)]

\* Lines 120-122: forceUpdate is entered and downloadUpdate starts.
ForceUpdateBegins ==
    /\ run' = [NoRun EXCEPT !.started = <<"download">>]
    /\ pc' = "download"

\* updater.forceUpdate()
CallForceUpdate ==
    /\ OperationCalled("forceUpdate")
    /\ cv' = NoCv
    /\ lookupRef' = "none"
    /\ ForceUpdateBegins
    /\ UNCHANGED <<config, ready, app, clone, backup, nConstructed, hasInstance, ctor,
                   task, taskError, proc>>

\* downloadUpdate (lines 168-184) settles; on success backupApp starts.
DownloadSucceeds(tree) ==
    /\ proc = "running" /\ pc = "download"
    /\ clone' = tree
    /\ cloneRef' = TemplateString(config.branch)
    /\ run' = StageDone(run, "download", "backup")
    /\ pc' = "backup"
    /\ UNCHANGED <<nCalls, config, ready, app, backup, nConstructed, hasInstance, ctor, task, taskError,
                   op, cv, ret, npm, proc, lookupRef>>

\* A download that empties the whole temp location, backup included, instead
\* of the clone subdirectory.
DownloadFailsInClone_EmptiesTempLocation ==
    /\ proc = "running" /\ pc = "download"
    /\ clone' = EmptyDir
    /\ backup' = EmptyDir
    /\ cloneRef' = TemplateString(config.branch)
    /\ UpdateFails("download")
    /\ UNCHANGED <<nCalls, config, ready, app, nConstructed, hasInstance, ctor,
                   task, taskError, cv, npm, proc, lookupRef>>

\* ensureDir / emptyDir of the clone workspace fails (lines 180-181).
DownloadFailsBeforeClone ==
    /\ proc = "running" /\ pc = "download"
    /\ UpdateFails("download")
    /\ UNCHANGED <<nCalls, config, ready, app, clone, backup, nConstructed, hasInstance, ctor,
                   task, taskError, cv, npm, proc, lookupRef, cloneRef>>

\* The workspace was emptied and git clone reported an error (lines 182, 315).
DownloadFailsInClone ==
    /\ proc = "running" /\ pc = "download"
    /\ clone' = EmptyDir
    /\ cloneRef' = TemplateString(config.branch)
    /\ UpdateFails("download")
    /\ UNCHANGED <<nCalls, config, ready, app, backup, nConstructed, hasInstance, ctor,
                   task, taskError, cv, npm, proc, lookupRef>>

\* An installUpdate that goes on to the copy when an ignored path is missing.
InstallUpdateBegins_SkipsMissingPaths ==
    LET purged == PurgeIgnored(clone, config.ignoreFiles)
    IN  /\ clone' = purged.dir
        /\ run' = StageDone(run, "backup", "install")
        /\ pc' = "install"
        /\ UNCHANGED <<op, ret>>

\* The start of installUpdate (lines 221-228), run as soon as backupApp returned.
InstallUpdateBegins ==
    LET purged == PurgeIgnored(clone, config.ignoreFiles)
    IN  /\ clone' = purged.dir
        /\ IF purged.ok
           THEN /\ run' = StageDone(run, "backup", "install")
                /\ pc' = "install"
                /\ UNCHANGED <<op, ret>>
           ELSE /\ run' = [StageDone(run, "backup", "install") EXCEPT !.failed = "install"]
                /\ ret' = [op |-> op, value |-> FALSE]
                /\ op' = "idle"
                /\ pc' = "idle"

\* backupApp (lines 156-162) succeeds: the application directory is copied
\* over the backup workspace.  installUpdate starts.
BackupSucceeds ==
    /\ proc = "running" /\ pc = "backup"
    /\ backup' = CopyOver(app, backup)
    /\ InstallUpdateBegins
    /\ UNCHANGED <<nCalls, config, ready, app, nConstructed, hasInstance, ctor, task, taskError, cv,
                   npm, proc, lookupRef, cloneRef>>

\* A forceUpdate that goes on to installUpdate after a failed backup.
BackupFails_GoesOnToInstall(copied) ==
    /\ proc = "running" /\ pc = "backup"
    /\ backup' = CopySome(app, backup, copied)
    /\ run' = [run EXCEPT !.started = Append(@, "install")]
    /\ pc' = "install"
    /\ UNCHANGED <<nCalls, config, ready, app, clone, nConstructed, hasInstance, ctor, task, taskError, cv,
                   npm, proc, lookupRef, cloneRef, op, ret>>

\* backupApp fails after having copied the files in `copied`.
BackupFails(copied) ==
    /\ proc = "running" /\ pc = "backup"
    /\ backup' = CopySome(app, backup, copied)
    /\ UpdateFails("backup")
    /\ UNCHANGED <<nCalls, config, ready, app, clone, nConstructed, hasInstance, ctor, task, taskError, cv,
                   npm, proc, lookupRef, cloneRef>>

\* An install that replaces the application directory by the clone.
InstallSucceeds_ReplacesDirectory ==
    /\ proc = "running" /\ pc = "install"
    /\ app' = clone
    /\ run' = StageDone(run, "install", "deps")
    /\ npm' = [promise |-> "pending", stdout |-> "open", errorSeen |-> FALSE]
    /\ pc' = "deps"
    /\ UNCHANGED <<nCalls, config, ready, clone, backup, nConstructed, hasInstance, ctor, task, taskError,
                   op, cv, ret, proc, lookupRef, cloneRef>>

\* The copy of installUpdate (lines 237-238) succeeds: the purged clone is
\* copied over the application directory.  installDependencies starts: npm
\* install is spawned and the handlers of lines 199-211 are attached.
InstallSucceeds ==
    /\ proc = "running" /\ pc = "install"
    /\ app' = CopyOver(clone, app)
    /\ run' = StageDone(run, "install", "deps")
    /\ npm' = [promise |-> "pending", stdout |-> "open", errorSeen |-> FALSE]
    /\ pc' = "deps"
    /\ UNCHANGED <<nCalls, config, ready, clone, backup, nConstructed, hasInstance, ctor, task, taskError,
                   op, cv, ret, proc, lookupRef, cloneRef>>

\* The copy of installUpdate fails after having written the files in `copied`.
InstallFails(copied) ==
    /\ proc = "running" /\ pc = "install"
    /\ app' = CopySome(clone, app, copied)
    /\ UpdateFails("install")
    /\ UNCHANGED <<nCalls, config, ready, clone, backup, nConstructed, hasInstance, ctor, task, taskError,
                   cv, npm, proc, lookupRef, cloneRef>>

----------------------------------------------------------------------------
(* installDependencies (lines 189-213): the output of `npm install`.       *)

\* A chunk of output is a sequence of characters.
ToLowerChar(c) ==
    CASE c = "E" -> "e" [] c = "R" -> "r" [] c = "O" -> "o" [] c = "W" -> "w"
      [] c = "A" -> "a" [] c = "N" -> "n" [] OTHER -> c
ToLowerCase(str) == [i \in 1..Len(str) |-> ToLowerChar(str[i])]

\* String.prototype.includes
Includes(str, sub) ==
    \E i \in 1..(Len(str) + 1 - Len(sub)) : SubSeq(str, i, i + Len(sub) - 1) = sub

\* Line 202: data.toLowerCase().includes('error')
IsErrorChunk(data) == Includes(ToLowerCase(data), <<"e", "r", "r", "o", "r">>)

\* Chunks npm may write to stderr: "npm WARN", "npm ERR!", "Error", "npm error".
StderrChunks ==
    { <<"n", "p", "m", " ", "W", "A", "R", "N">>,
      <<"n", "p", "m", " ", "E", "R", "R", "!">>,
      <<"E", "r", "r", "o", "r">>,
      <<"n", "p", "m", " ", "e", "r", "r", "o", "r">> }

\* Lines 128-129: process.exit(1) when configured, else forceUpdate returns true.
UpdateFinishes ==
    IF config.exitOnComplete
    THEN /\ proc' = "exited"
         /\ UNCHANGED <<op, pc, ret>>
    ELSE /\ ret' = [op |-> op, value |-> TRUE]
         /\ op' = "idle"
         /\ pc' = "idle"
         /\ UNCHANGED proc

\* Lines 126-129, run when the promise of installDependencies is fulfilled: the
\* completion command is spawned detached (lines 325-330) and a timer awaited;
\* without a command the update finishes at once.
PostActionsBegin ==
    IF Truthy(config.executeOnComplete)
    THEN /\ run' = [StageDone(run, "deps", "post") EXCEPT !.launched = TRUE]
         /\ pc' = "post"
         /\ UNCHANGED <<op, ret, proc>>
    ELSE /\ run' = StageDone(run, "deps", "post")
         /\ UpdateFinishes

\* Line 199: stdout of npm install ends.  This resolves the promise if it is
\* still pending, and forceUpdate goes on.
NpmStdoutEnds ==
    /\ proc = "running" /\ npm.stdout = "open"
    /\ IF npm.promise = "pending"
       THEN /\ npm' = [npm EXCEPT !.stdout = "ended", !.promise = "fulfilled"]
            /\ PostActionsBegin
       ELSE /\ npm' = [npm EXCEPT !.stdout = "ended"]
            /\ UNCHANGED <<op, pc, ret, run, proc>>
    /\ UNCHANGED <<nCalls, config, ready, app, clone, backup, nConstructed, hasInstance, ctor,
                   task, taskError, cv, lookupRef, cloneRef>>

\* Lines 201-211: a chunk arrives on stderr of npm install.  A chunk that
\* contains "error" rejects the promise if it is still pending, and forceUpdate
\* goes to its catch block; any other chunk is logged as a warning.
NpmStderrData(data) ==
    /\ proc = "running" /\ npm.promise # "none"
    /\ IF IsErrorChunk(data)
       THEN IF npm.promise = "pending"
            THEN /\ npm' = [npm EXCEPT !.promise = "rejected", !.errorSeen = TRUE]
                 /\ UpdateFails("deps")
            ELSE /\ npm' = [npm EXCEPT !.errorSeen = TRUE]
                 /\ UNCHANGED <<op, pc, ret, run>>
       ELSE UNCHANGED <<npm, op, pc, ret, run>>
    /\ UNCHANGED <<nCalls, config, ready, app, clone, backup, nConstructed, hasInstance, ctor,
                   task, taskError, cv, proc, lookupRef, cloneRef>>

\* Line 328: the timer of promiseBlindExecute fires.
PostTimerFires ==
    /\ proc = "running" /\ pc = "post"
    /\ UpdateFinishes
    /\ UNCHANGED <<nCalls, config, ready, app, clone, backup, nConstructed, hasInstance, ctor,
                   task, taskError, cv, run, npm, lookupRef, cloneRef>>

----------------------------------------------------------------------------
(* autoUpdate (lines 81-86).                                               *)

\* An autoUpdate that does not look at the gate.
GateTest_DoesNotWait == CompareVersionsBegins

\* Line 82: the gate is tested; when it is open compareVersions is called,
\* otherwise autoUpdate sleeps.
GateTest ==
    IF ready
    THEN CompareVersionsBegins
    ELSE pc' = "au_sleep" /\ cv' = NoCv /\ lookupRef' = "none"

\* updater.autoUpdate()
CallAutoUpdate ==
    /\ OperationCalled("autoUpdate")
    /\ run' = NoRun
    /\ GateTest
    /\ UNCHANGED <<config, ready, app, clone, backup, nConstructed, hasInstance, ctor,
                   task, taskError, proc>>

\* Line 82: sleep(1000) is over and the gate is tested again.
AutoUpdateWakes ==
    /\ proc = "running" /\ op = "autoUpdate" /\ pc = "au_sleep"
    /\ GateTest
    /\ UNCHANGED <<nCalls, config, ready, app, clone, backup, nConstructed, hasInstance, ctor,
                   task, taskError, op, ret, run, npm, proc, cloneRef>>

\* An autoUpdate that updates whatever the comparison says.
NeedsUpdate_Always(versionCheck) == TRUE

\* Whether autoUpdate goes on to forceUpdate (line 84).
NeedsUpdate(versionCheck) == ~versionCheck.upToDate

\* Lines 83-85: compareVersions returned; autoUpdate returns true or calls forceUpdate.
AutoUpdateDecides ==
    /\ proc = "running" /\ op = "autoUpdate" /\ pc = "cv_done"
    /\ IF NeedsUpdate(cv.result)
       THEN /\ ForceUpdateBegins
            /\ UNCHANGED <<op, ret>>
       ELSE /\ ret' = [op |-> "autoUpdate", value |-> TRUE]
            /\ op' = "idle"
            /\ pc' = "idle"
            /\ UNCHANGED run
    /\ UNCHANGED <<nCalls, config, ready, app, clone, backup, nConstructed, hasInstance, ctor,
                   task, taskError, cv, npm, proc, lookupRef, cloneRef>>

----------------------------------------------------------------------------
Next ==
    \/ \E updateConfig \in ConfigInputs : Constructor(updateConfig)
    \/ ConstructorNoConfig
    \/ \E i \in 1..MaxConstructions : \E resp \in ReleaseResponses : ReleaseTagSettles(i, resp)
    \/ CallCompareVersions
    \/ \E resp \in ManifestResponses : RemoteVersionSettles(resp)
    \/ CompareVersionsReturns
    \/ CallAutoUpdate
    \/ AutoUpdateWakes
    \/ AutoUpdateDecides
    \/ CallForceUpdate
    \/ \E tree \in RemoteTrees : DownloadSucceeds(tree)
    \/ DownloadFailsBeforeClone
    \/ DownloadFailsInClone
    \/ BackupSucceeds
    \/ \E copied \in PartialCopies : BackupFails(copied)
    \/ InstallSucceeds
    \/ \E copied \in PartialCopies : InstallFails(copied)
    \/ NpmStdoutEnds
    \/ \E data \in StderrChunks : NpmStderrData(data)
    \/ PostTimerFires

Spec == Init /\ [][Next]_vars

----------------------------------------------------------------------------
(* Properties.                                                             *)

\* The stages a run has entered.
Started(r) == {r.started[i] : i \in 1..Len(r.started)}

\* The operation in flight, or the last one that returned.
CurrentOp == IF op # "idle" THEN op ELSE ret.op

IsString(v) == v[1] = "string"

\* The tag the release request resolves to.
ResolvedTag == TemplateString(JSONParse(RelV2).tag_name)

\* C1: no step taken while the run of the current operation has not entered
\* the backup stage (so none of a run that fails in download) changes the
\* application directory or the backup workspace; no step taken while it has
\* not entered the install stage (so none of a run that fails in backup)
\* changes the application directory; and the install stage is entered only
\* by a run whose backup stage has completed.
C1_FailedStagesLeaveFilesAlone ==
    [][ /\ ("backup" \notin Started(run') => app' = app /\ backup' = backup)
        /\ ("install" \notin Started(run') => app' = app)
        /\ ("install" \in Started(run') => "backup" \in run'.completed) ]_vars

C1_Witness ==
    /\ run.failed = "download"
    /\ clone = EmptyDir
    /\ backup = PriorBackup

\* C2: in a process with one constructor call, made with fromReleases = true,
\* an autoUpdate that is past its gate (comparing, or updating) finds the
\* release-tag request fulfilled, and the reference it has put in the remote
\* package.json URL and given to git clone is the resolved tag.
C2_ComparisonWaitsForReleaseTag ==
    (nConstructed = 1 /\ config.fromReleases /\ op = "autoUpdate" /\ pc # "au_sleep")
        => /\ task[1] = "fulfilled"
           /\ lookupRef \in {"none", ResolvedTag}
           /\ cloneRef \in {"none", ResolvedTag}

C2_Witness ==
    /\ nConstructed = 1 /\ config.fromReleases /\ op = "autoUpdate"
    /\ lookupRef = ResolvedTag
    /\ cloneRef = ResolvedTag

\* C3: in a process with one constructor call, once its release-tag request has
\* settled, fulfilled or rejected, the readiness gate is open (so that a
\* sleeping autoUpdate goes on).
C3_GateOpensWhenResolutionEnds ==
    (nConstructed = 1 /\ task[1] \in {"fulfilled", "rejected"}) => ready

\* C4: when a stderr chunk of npm install containing "error" has been
\* delivered, the update has not returned true; and the promise of
\* installDependencies is rejected only when such a chunk was delivered.
C4_ErrorOutputFailsUpdate ==
    /\ npm.errorSeen => ~(ret.op \in {"forceUpdate", "autoUpdate"} /\ ret.value)
    /\ npm.promise = "rejected" => npm.errorSeen

\* C5: autoUpdate enters the pipeline only after a comparison that read both
\* versions and found them different.
C5_UpdateOnlyOnVersionDifference ==
    (CurrentOp = "autoUpdate" /\ run.started # <<>>)
        => (cv.outcome = "compared" /\ cv.currentVersion # cv.remoteVersion)

\* C6: when compareVersions reported upToDate to autoUpdate, no stage has been
\* entered in that call, no command spawned, no clone made, no npm child
\* started, the process not exited, and autoUpdate, once returned, returned true.
C6_UpToDateRunsNoStage ==
    (CurrentOp = "autoUpdate" /\ cv.outcome # "none" /\ cv.result.upToDate)
        => /\ run.started = <<>>
           /\ ~run.launched
           /\ npm.promise = "none"
           /\ cloneRef = "none"
           /\ proc = "running"
           /\ (op = "idle" => ret.value)

C6_Witness ==
    /\ op = "idle" /\ ret.op = "autoUpdate" /\ ret.value
    /\ cv.outcome = "compared" /\ cv.result.upToDate

\* C7: when both versions were read, upToDate is true exactly when the two
\* are equal strings, and for different values the result is upToDate = false
\* with both values as read.
C7_UpToDateIffEqualStrings ==
    cv.outcome = "compared"
        => /\ cv.result.upToDate <=>
                  (IsString(cv.currentVersion) /\ IsString(cv.remoteVersion)
                   /\ cv.currentVersion = cv.remoteVersion)
           /\ cv.currentVersion # cv.remoteVersion
                  => /\ ~cv.result.upToDate
                     /\ cv.result.currentVersion = cv.currentVersion
                     /\ cv.result.remoteVersion = cv.remoteVersion

\* C8: every result of compareVersions has a defined currentVersion and a
\* defined remoteVersion (upToDate is always a boolean).
C8_ResultHasAllFields ==
    cv.outcome # "none"
        => /\ cv.result.upToDate \in BOOLEAN
           /\ cv.result.currentVersion # Undefined
           /\ cv.result.remoteVersion # Undefined

\* C9: no exception leaves compareVersions, and when the local read or the
\* remote lookup failed its result is upToDate = false with both versions "Error".
C9_FailedComparisonReturnsError ==
    /\ ~cv.raised
    /\ cv.outcome \in {"local-read-failed", "remote-read-failed"}
           => cv.result = VersionResults(FALSE, JSString("Error"), JSString("Error"))

C9_Witness ==
    /\ op = "idle" /\ ret.op = "compareVersions"
    /\ cv.outcome = "local-read-failed"

\* C10: no step of compareVersions (the call, the settling of the remote
\* request, the return) changes the application directory, the clone
\* workspace, the backup workspace, the configuration or the readiness gate.
C10_CompareVersionsChangesNothing ==
    [][ (\/ CallCompareVersions
         \/ \E resp \in ManifestResponses : RemoteVersionSettles(resp)
         \/ CompareVersionsReturns)
        => UNCHANGED <<app, clone, backup, config, ready>> ]_vars

C10_Witness ==
    /\ op = "idle" /\ ret.op = "compareVersions"
    /\ cv.outcome = "compared"
    /\ clone # EmptyDir

\* The files named in the ignoreFiles option.
Ignored == {config.ignoreFiles[k] : k \in 1..Len(config.ignoreFiles)}

\* C11: the step in which the copy of installUpdate succeeds leaves every
\* ignored file that exists in the application directory as it is, gives every
\* file of the purged clone (the cloned files that are not ignored) the cloned
\* content, and leaves the files with no counterpart in the clone as they are;
\* and no later step of that update (dependency installation, post-actions)
\* writes the application directory.
C11_IgnoredFilesSurviveInstall ==
    [][ /\ (pc = "install" /\ pc' = "deps")
              => \A f \in Files :
                    /\ (f \in Ignored /\ app[f] # Absent) => app'[f] = app[f]
                    /\ (f \notin Ignored /\ clone[f] # Absent) => app'[f] = clone[f]
                    /\ clone[f] = Absent => app'[f] = app[f]
        /\ pc \in {"deps", "post"} => app' = app ]_vars

C11_Witness ==
    /\ op = "idle" /\ ret = [op |-> "forceUpdate", value |-> TRUE]
    /\ Ignored = {"config.json"}
    /\ app["config.json"] = "local"
    /\ app["package.json"] = PkgV2
    /\ clone["config.json"] = Absent

StageOrder == <<"download", "backup", "install", "deps", "post">>
PipelineStages == {"download", "backup", "install", "deps"}

\* C13: the completion command has been spawned only in a run whose download,
\* backup, install and dependency-install stages all completed (each await
\* returned without throwing); the process has exited only in such a run, with
\* exitOnComplete set and, when a command is configured, after the command
\* was spawned; and a run that returned false has spawned no command and left
\* the process running.
C13_PostActionsOnlyAfterSuccess ==
    /\ run.launched => PipelineStages \subseteq run.completed
    /\ proc = "exited"
           => /\ PipelineStages \subseteq run.completed
              /\ config.exitOnComplete
              /\ Truthy(config.executeOnComplete) => run.launched
    /\ (op = "idle" /\ ret.op \in {"forceUpdate", "autoUpdate"} /\ ~ret.value)
           => (~run.launched /\ proc = "running")

C13_Witness ==
    /\ proc = "exited" /\ run.launched
    /\ Truthy(config.executeOnComplete) /\ config.exitOnComplete

\* C14: the stages a run has entered are an initial part of download, backup,
\* install, deps, post; every entered stage but the last has completed, and
\* nothing else has; a run with a failed stage failed in the stage it entered
\* last, has returned false to the caller and entered nothing after it; and an
\* update that returned true entered and passed every stage.
C14_StagesInOrderAbortOnFailure ==
    /\ Len(run.started) <= Len(StageOrder)
    /\ run.started = SubSeq(StageOrder, 1, Len(run.started))
    /\ \A k \in 1..Len(run.started) : k < Len(run.started) => run.started[k] \in run.completed
    /\ run.completed \subseteq Started(run)
    /\ run.failed # "none"
           => /\ run.failed = run.started[Len(run.started)]
              /\ run.failed \notin run.completed
              /\ op = "idle" /\ proc = "running"
              /\ ret.op \in {"forceUpdate", "autoUpdate"} /\ ~ret.value
    /\ (ret.op \in {"forceUpdate", "autoUpdate"} /\ ret.value /\ run.started # <<>>)
           => /\ run.failed = "none"
              /\ run.started = StageOrder
              /\ PipelineStages \subseteq run.completed

C14_Witness ==
    /\ run.failed = "backup"
    /\ run.started = <<"download", "backup">>
    /\ ret = [op |-> "forceUpdate", value |-> FALSE]

\* C15: when the request of readRemoteVersion fails, the error compareVersions
\* catches, and when the request of a release-tag task fails, the error its
\* promise is rejected with, is NotFoundOrPrivate if the response had status
\* 404 and the original cause (the other status code, the request error, the
\* SyntaxError) otherwise.
C15_NotFoundOnlyOn404 ==
    [][ LET Expected(resp) ==
                IF resp.status = 404 THEN NotFoundOrPrivate ELSE RequestFailure(resp)
        IN  /\ \A resp \in ManifestResponses :
                  (RemoteVersionSettles(resp) /\ cv'.outcome = "remote-read-failed")
                      => cv'.caught = Expected(resp)
            /\ \A i \in 1..MaxConstructions : \A resp \in ReleaseResponses :
                  (ReleaseTagSettles(i, resp) /\ task'[i] = "rejected")
                      => taskError'[i] = Expected(resp) ]_vars

\* C16: when the remote package.json is valid JSON without a version property,
\* compareVersions ends with the "Error" result (upToDate = false, both
\* versions "Error"), whatever the local package.json holds.
C16_MissingRemoteVersionIsError ==
    [][ \A resp \in ManifestResponses :
            ( /\ RemoteVersionSettles(resp)
              /\ resp.status = 200
              /\ JSONParse(resp.body).ok
              /\ JSONParse(resp.body).version = Undefined )
                => /\ ~cv'.result.upToDate
                   /\ cv'.result = VersionResults(FALSE, JSString("Error"), JSString("Error")) ]_vars

\* C17: the step in which backupApp returns while an ignored path is missing
\* from the freshly cloned workspace ends the run: installUpdate has failed,
\* forceUpdate has returned false, the application directory is as it was, no
\* npm child has been started, no command spawned, the process not exited;
\* and the earlier steps of the run (download, backup) do not write the
\* application directory either.
C17_MissingIgnoredPathFailsInstall ==
    [][ /\ (pc = "backup" /\ "backup" \in run'.completed /\ \E f \in Ignored : clone[f] = Absent)
              => /\ app' = app
                 /\ run'.failed = "install"
                 /\ run'.started = <<"download", "backup", "install">>
                 /\ op' = "idle" /\ ret' = [op |-> op, value |-> FALSE]
                 /\ npm'.promise = "none" /\ ~run'.launched /\ proc' = "running"
        /\ pc \in {"download", "backup"} => app' = app ]_vars

C17_Witness ==
    /\ run.failed = "install"
    /\ ret = [op |-> "forceUpdate", value |-> FALSE]
    /\ Ignored = {"config.json"}
    /\ clone = [EmptyDir EXCEPT !["package.json"] = PkgV2]
    /\ app = [EmptyDir EXCEPT !["package.json"] = PkgV1, !["config.json"] = "local"]
    /\ npm.promise = "none"

\* C18: the step in which backupApp succeeds leaves the backup workspace with
\* exactly the files of the application directory, each with the
\* application's content, and no file of an earlier backup.
C18_BackupHoldsOneGeneration ==
    [][ (pc = "backup" /\ "backup" \in run'.completed)
            => \A f \in Files : backup'[f] = app[f] ]_vars

\* C19: for any number of constructor calls, whenever the readiness gate is
\* open no release-tag request is pending, and an autoUpdate that is past its
\* gate (comparing or updating) runs with no release-tag request pending.
C19_OpenGateMeansNoPendingResolution ==
    /\ ready => \A i \in 1..MaxConstructions : task[i] # "pending"
    /\ (op = "autoUpdate" /\ pc # "au_sleep")
           => \A i \in 1..MaxConstructions : task[i] # "pending"

\* C20: a constructor call that ends with the error of the self-overwrite
\* check (the host's package.json is named auto-git-update) has started no release-tag request and leaves the readiness gate and
\* the configuration as they were before the call (the gate open, if it was).
C20_SelfCheckRejectionHasNoEffect ==
    [][ \A updateConfig \in ConfigInputs :
            ( /\ Constructor(updateConfig)
              /\ ctor' = "threw-self"
              /\ ReadJSONFile(app, "package.json").name = JSString("auto-git-update") )
                => /\ task' = task
                   /\ ready' = ready
                   /\ config' = config ]_vars

====
